---- MODULE Spec2Model ----
(***************************************************************************)
(* A model of converter.py, the file converter command line tool.          *)
(*                                                                         *)
(* The module has five callable functions: main and the four conversion    *)
(* routines pdf_to_image, pdf_to_docx, docx_to_pdf and image_to_image.     *)
(* A behaviour is one call of one of them, followed statement by           *)
(* statement until it returns, raises, or leaves the process.              *)
(*                                                                         *)
(* Python strings are sequences of one-character strings, so that          *)
(* str.lower, str.upper, os.path.join, os.path.splitext and the f-strings  *)
(* are computed character by character.                                    *)
(*                                                                         *)
(* A call into a library (pdf2image, PIL, python-docx, fpdf) is one step.  *)
(* It either completes with its effect or raises with no effect; whether   *)
(* it raises is the environment's choice, except that a reader raises on   *)
(* a file that is missing or is not of the kind it reads.                  *)
(***************************************************************************)
EXTENDS Integers, Sequences, FiniteSets, TLC

\* Largest number of pages of an input PDF.
MaxPages == 11

\* Largest number of paragraphs of an input DOCX.
MaxParas == 3

----------------------------------------------------------------------------
\* Characters and strings

UpperChars == <<"A","B","C","D","E","F","G","H","I","J","K","L","M",
                "N","O","P","Q","R","S","T","U","V","W","X","Y","Z">>

LowerChars == <<"a","b","c","d","e","f","g","h","i","j","k","l","m",
                "n","o","p","q","r","s","t","u","v","w","x","y","z">>

DigitChars == <<"0","1","2","3","4","5","6","7","8","9">>

\* The value of a parameter or local that holds no string (Python's None).
None == <<"<None>">>

\* Position of character c in the table t, 0 when absent.
CharIndex(c, t) ==
    IF \E k \in 1..Len(t) : t[k] = c
    THEN CHOOSE k \in 1..Len(t) : t[k] = c
    ELSE 0

\* str.lower() on one character.
lower_char(c) ==
    IF CharIndex(c, UpperChars) # 0 THEN LowerChars[CharIndex(c, UpperChars)] ELSE c

\* str.upper() on one character.
upper_char(c) ==
    IF CharIndex(c, LowerChars) # 0 THEN UpperChars[CharIndex(c, LowerChars)] ELSE c

\* args.output_format.lower()
lower(s) == [k \in 1..Len(s) |-> lower_char(s[k])]

\* output_format.upper()
upper(s) == [k \in 1..Len(s) |-> upper_char(s[k])]

\* str(n) as the f-string formats a non-negative int: decimal, no padding.
RECURSIVE str(_)
str(n) ==
    IF n < 10 THEN <<DigitChars[n + 1]>>
    ELSE str(n \div 10) \o <<DigitChars[(n % 10) + 1]>>

\* Largest index k with p[k] = c, 0 when there is none (str.rfind, 1-based).
rfind(p, c) ==
    IF \E k \in 1..Len(p) : p[k] = c
    THEN CHOOSE k \in 1..Len(p) : p[k] = c /\ \A j \in (k + 1)..Len(p) : p[j] # c
    ELSE 0

\* os.path.join(a, b) on POSIX.
join(a, b) ==
    IF Len(b) > 0 /\ b[1] = "/" THEN b
    ELSE IF Len(a) = 0 \/ a[Len(a)] = "/" THEN a \o b
    ELSE a \o <<"/">> \o b

\* os.path.splitext(p)[0] on POSIX: cut at the last dot of the last path
\* component, unless that component has only dots before it.
splitext_root(p) ==
    LET sepIndex == rfind(p, "/")
        dotIndex == rfind(p, ".")
    IN  IF dotIndex > sepIndex
           /\ \E k \in (sepIndex + 1)..(dotIndex - 1) : p[k] # "."
        THEN SubSeq(p, 1, dotIndex - 1)
        ELSE p

----------------------------------------------------------------------------
\* The strings the program and its callers use

jpg == <<"j","p","g">>

png == <<"p","n","g">>

docx == <<"d","o","c","x">>

pdf == <<"p","d","f">>

\* 'output.docx' and 'output.pdf', the fixed file names main passes on.
output_docx == <<"o","u","t","p","u","t",".","d","o","c","x">>

output_pdf == <<"o","u","t","p","u","t",".","p","d","f">>

\* The default of --output_dir.
default_output_dir == <<".">>

\* A plausible slip: the enumerate index used as the page number.
page_file_name_0(k, fmt) ==
    <<"o","u","t","p","u","t","_">> \o str(k) \o <<".">> \o fmt

\* f'output_{i + 1}.{output_format}' for the enumerate index k.
page_file_name(k, fmt) ==
    <<"o","u","t","p","u","t","_">> \o str(k + 1) \o <<".">> \o fmt

\* Values of --output_format a caller may give: the supported ones in
\* several letter cases, and unsupported ones.
Formats ==
    { jpg, <<"J","P","G">>, png, <<"P","n","g">>,
      docx, <<"D","O","C","X">>, pdf, <<"P","d","f">>,
      <<"x","y","z">>, <<"j","p","e","g">>, << >> }

\* Values of --input.
InputPaths == { <<"a",".","p","d","f">>, <<"d","/","b",".","p","n","g">> }

\* Values of --output_dir.
OutputDirs == { <<"o">>, <<"o","/">>, << >> }

\* Texts of paragraphs.
Texts == { "p", "q" }

\* The paragraph lists of the DOCX inputs.
ParaSeqs == UNION { [1..n -> Texts] : n \in 0..MaxParas }

\* What the input path holds: nothing, a PDF of some pages, a DOCX of some
\* paragraphs, an image, or a file of another kind.
Contents ==
    [kind : {"pdf"}, pages : 0..MaxPages, paras : {<< >>}]
    \cup [kind : {"docx"}, pages : {0}, paras : ParaSeqs]
    \cup [kind : {"absent", "image", "other"}, pages : {0}, paras : {<< >>}]

----------------------------------------------------------------------------
VARIABLES
    entry,          \* the function the caller called
    argv,           \* the command line, for a call of main
    content,        \* what the input path holds
    fs,             \* the paths of the files that exist
    pc,             \* the statement to run next
    input_file,     \* parameter / local of the running function
    output_format,  \* parameter / local of the running function
    output_dir,     \* parameter / local of the running function
    output_file,    \* parameter / local of the running function
    images,         \* pdf_to_image: number of images convert_from_path gave
    i,              \* index of the running for loop
    cells,          \* docx_to_pdf: the text cells appended to the FPDF so far
    stdout,         \* what print() has written, in order
    calls,          \* the conversion routines called, in order
    written,        \* the files saved, in order
    result          \* how the call ended

vars == << entry, argv, content, fs, pc, input_file, output_format, output_dir,
           output_file, images, i, cells, stdout, calls, written, result >>

locals == << input_file, output_format, output_dir, output_file >>

env == << entry, argv, content >>

\* os.path.isfile(p)
isfile(p) == p \in fs

\* An entry of stdout: a fixed text, followed by the exception for the
\* f-strings that format one.
Line(msg, e) == [msg |-> msg, e |-> e]

\* The state right after the caller's call, before the first statement.
Start(fn, in, fmt, dir, out, c) ==
    /\ entry = fn
    /\ content = c
    /\ pc = fn
    /\ input_file = in
    /\ output_format = fmt
    /\ output_dir = dir
    /\ output_file = out
    /\ images = 0
    /\ i = 0
    /\ cells = << >>
    /\ stdout = << >>
    /\ written = << >>
    /\ result = "running"

\* python converter.py [--input P] [--output_format F] [--output_dir D]
InitMain ==
    /\ argv \in [input : InputPaths \cup {None},
                 output_format : Formats \cup {None},
                 output_dir : OutputDirs \cup {None}]
    /\ \E c \in Contents : Start("main", None, None, None, None, c)
    /\ (argv.input = None => content.kind = "absent")
    /\ fs = IF content.kind = "absent" THEN {} ELSE {argv.input}
    /\ calls = << >>

\* A direct call of one conversion routine with its parameters.
InitDirect ==
    /\ argv = [input |-> None, output_format |-> None, output_dir |-> None]
    /\ \E c \in Contents, in \in InputPaths :
         \/ \E fmt \in Formats, dir \in OutputDirs \cup {default_output_dir} :
              Start("pdf_to_image", in, fmt, dir, None, c)
         \/ \E dir \in OutputDirs :
              Start("pdf_to_docx", in, None, None, join(dir, output_docx), c)
         \/ \E dir \in OutputDirs :
              Start("docx_to_pdf", in, None, None, join(dir, output_pdf), c)
         \/ \E fmt \in Formats :
              Start("image_to_image", in, fmt, None, None, c)
    /\ fs = IF content.kind = "absent" THEN {} ELSE {input_file}
    /\ calls = << entry >>

Init == InitMain \/ InitDirect

----------------------------------------------------------------------------
\* How a function ends

\* return: the function returns normally to its caller.  Nothing follows a
\* routine's call in main, so main returns with it.
Return ==
    /\ pc' = "done"
    /\ result' = "returned"

\* An exception no handler catches leaves the function, and main with it.
Raise ==
    /\ pc' = "done"
    /\ result' = "raised"

\* parser.error(): argparse leaves the process with SystemExit(2).
SystemExit2 ==
    /\ pc' = "done"
    /\ result' = "SystemExit(2)"

\* image.save(path, fmt) / pdf.output(path) completing.
Save(path, fmt, page, text) ==
    /\ fs' = fs \cup {path}
    /\ written' = Append(written, [path |-> path, format |-> fmt,
                                   page |-> page, cells |-> text])

----------------------------------------------------------------------------
\* main

\* parser.parse_args() and the three assignments after it.  A missing
\* required option ends the process in parse_args.
ParseArgs ==
    /\ pc = "main"
    /\ IF argv.input = None \/ argv.output_format = None
       THEN /\ SystemExit2
            /\ UNCHANGED locals
       ELSE /\ input_file' = argv.input
            /\ output_format' = lower(argv.output_format)
            /\ output_dir' = IF argv.output_dir = None
                             THEN default_output_dir ELSE argv.output_dir
            /\ pc' = "isfile"
            /\ UNCHANGED << output_file, result >>
    /\ UNCHANGED << env, fs, images, i, cells, stdout, calls, written >>

\* A plausible slip: the diagnostic is printed but main goes on.
CheckInputNoReturn ==
    /\ pc = "isfile"
    /\ stdout' = IF isfile(input_file) THEN stdout
                 ELSE Append(stdout, Line("Error: Input file not found.", ""))
    /\ pc' = "dispatch"
    /\ UNCHANGED << env, fs, locals, images, i, cells, calls, written, result >>

\* if not os.path.isfile(input_file): print(...); return
CheckInput ==
    /\ pc = "isfile"
    /\ IF isfile(input_file)
       THEN /\ pc' = "dispatch"
            /\ UNCHANGED << stdout, result >>
       ELSE /\ stdout' = Append(stdout, Line("Error: Input file not found.", ""))
            /\ Return
    /\ UNCHANGED << env, fs, locals, images, i, cells, calls, written >>

\* A plausible slip: the two jpg/png branches in the other order.
RouteImageFirst(fmt) ==
    IF fmt \in {jpg, png} THEN "image_to_image"
    ELSE IF fmt = jpg \/ fmt = png THEN "pdf_to_image"
    ELSE IF fmt = docx THEN "pdf_to_docx"
    ELSE IF fmt = pdf THEN "docx_to_pdf"
    ELSE "none"

\* A plausible slip: the last elif taken for an else.
RouteNoElse(fmt) ==
    IF fmt = jpg \/ fmt = png THEN "pdf_to_image"
    ELSE IF fmt = docx THEN "pdf_to_docx"
    ELSE IF fmt = pdf THEN "docx_to_pdf"
    ELSE "image_to_image"

\* The if/elif chain of main: the routine the format selects, "none" for the
\* final else.
Route(fmt) ==
    IF fmt = jpg \/ fmt = png THEN "pdf_to_image"
    ELSE IF fmt = docx THEN "pdf_to_docx"
    ELSE IF fmt = pdf THEN "docx_to_pdf"
    ELSE IF fmt \in {jpg, png} THEN "image_to_image"
    ELSE "none"

\* The call main makes for the format, or the unsupported-format diagnostic.
Dispatch ==
    /\ pc = "dispatch"
    /\ LET fn == Route(output_format)
       IN  IF fn = "none"
           THEN /\ stdout' = Append(stdout,
                                Line("Error: Unsupported output format.", ""))
                /\ Return
                /\ UNCHANGED << calls, output_file >>
           ELSE /\ calls' = Append(calls, fn)
                /\ pc' = fn
                /\ output_file' =
                     IF fn = "pdf_to_docx" THEN join(output_dir, output_docx)
                     ELSE IF fn = "docx_to_pdf" THEN join(output_dir, output_pdf)
                     ELSE output_file
                /\ UNCHANGED << stdout, result >>
    /\ UNCHANGED << env, fs, input_file, output_format, output_dir,
                    images, i, cells, written >>

----------------------------------------------------------------------------
\* pdf_to_image(input_file, output_dir, output_format)

\* print(f"Error converting PDF to image: {e}") in the except clause, after
\* which the function returns.
PdfToImageExcept(e) ==
    /\ stdout' = Append(stdout, Line("Error converting PDF to image: ", e))
    /\ Return

\* images = convert_from_path(input_file)
PdfToImageConvert ==
    /\ pc = "pdf_to_image"
    /\ \E ok \in BOOLEAN :
         IF ok /\ isfile(input_file) /\ content.kind = "pdf"
         THEN /\ images' = content.pages
              /\ i' = 0
              /\ pc' = "pdf_to_image_for"
              /\ UNCHANGED << stdout, result >>
         ELSE /\ PdfToImageExcept("convert_from_path")
              /\ UNCHANGED << images, i >>
    /\ UNCHANGED << env, fs, locals, cells, calls, written >>

\* A plausible slip: the try inside the loop, so that a failed save is
\* reported and the loop goes on with the next page.
PdfToImageSaveGoOn ==
    /\ pc = "pdf_to_image_for"
    /\ i < images
    /\ \E ok \in BOOLEAN :
         IF ok
         THEN /\ Save(join(output_dir, page_file_name(i, output_format)),
                      upper(output_format), i + 1, << >>)
              /\ UNCHANGED stdout
         ELSE /\ stdout' = Append(stdout,
                              Line("Error converting PDF to image: ", "save"))
              /\ UNCHANGED << fs, written >>
    /\ i' = i + 1
    /\ UNCHANGED << env, pc, locals, images, cells, calls, result >>

\* One iteration of the for loop: image.save(os.path.join(...), ...upper()).
PdfToImageSave ==
    /\ pc = "pdf_to_image_for"
    /\ i < images
    /\ \E ok \in BOOLEAN :
         IF ok
         THEN /\ Save(join(output_dir, page_file_name(i, output_format)),
                      upper(output_format), i + 1, << >>)
              /\ i' = i + 1
              /\ UNCHANGED << pc, stdout, result >>
         ELSE /\ PdfToImageExcept("save")
              /\ UNCHANGED << fs, written, i >>
    /\ UNCHANGED << env, locals, images, cells, calls >>

\* The for loop is exhausted and the function returns.
PdfToImageReturn ==
    /\ pc = "pdf_to_image_for"
    /\ i = images
    /\ Return
    /\ UNCHANGED << env, fs, locals, images, i, cells, stdout, calls, written >>

----------------------------------------------------------------------------
\* pdf_to_docx(input_file, output_file)

\* A plausible slip: the placeholder creates the file it was given.
PdfToDocxWrites ==
    /\ pc = "pdf_to_docx"
    /\ stdout' = Append(stdout,
                    Line("PDF to DOCX conversion is not implemented yet.", ""))
    /\ Save(output_file, None, 0, << >>)
    /\ Return
    /\ UNCHANGED << env, locals, images, i, cells, calls >>

\* print("PDF to DOCX conversion is not implemented yet.")
PdfToDocx ==
    /\ pc = "pdf_to_docx"
    /\ stdout' = Append(stdout,
                    Line("PDF to DOCX conversion is not implemented yet.", ""))
    /\ Return
    /\ UNCHANGED << env, fs, locals, images, i, cells, calls, written >>

----------------------------------------------------------------------------
\* docx_to_pdf(input_file, output_file): no try, an exception leaves it.

\* doc = Document(input_file); pdf = FPDF(); set_auto_page_break; add_page
DocxToPdfOpen ==
    /\ pc = "docx_to_pdf"
    /\ \E ok \in BOOLEAN :
         IF ok /\ isfile(input_file) /\ content.kind = "docx"
         THEN /\ cells' = << >>
              /\ i' = 0
              /\ pc' = "docx_to_pdf_for"
              /\ UNCHANGED result
         ELSE /\ Raise
              /\ UNCHANGED << cells, i >>
    /\ UNCHANGED << env, fs, locals, images, stdout, calls, written >>

\* A plausible slip: the cell is put before the earlier ones.
DocxToPdfParaFront ==
    /\ pc = "docx_to_pdf_for"
    /\ i < Len(content.paras)
    /\ \E ok \in BOOLEAN :
         IF ok
         THEN /\ cells' = << content.paras[i + 1] >> \o cells
              /\ i' = i + 1
              /\ UNCHANGED << pc, result >>
         ELSE /\ Raise
              /\ UNCHANGED << cells, i >>
    /\ UNCHANGED << env, fs, locals, images, stdout, calls, written >>

\* One iteration of the for loop: set_font; multi_cell(0, 10, para.text)
DocxToPdfPara ==
    /\ pc = "docx_to_pdf_for"
    /\ i < Len(content.paras)
    /\ \E ok \in BOOLEAN :
         IF ok
         THEN /\ cells' = Append(cells, content.paras[i + 1])
              /\ i' = i + 1
              /\ UNCHANGED << pc, result >>
         ELSE /\ Raise
              /\ UNCHANGED << cells, i >>
    /\ UNCHANGED << env, fs, locals, images, stdout, calls, written >>

\* pdf.output(output_file), after the loop, and the return.
DocxToPdfOutput ==
    /\ pc = "docx_to_pdf_for"
    /\ i = Len(content.paras)
    /\ \E ok \in BOOLEAN :
         IF ok
         THEN /\ Save(output_file, None, 0, cells)
              /\ Return
         ELSE /\ Raise
              /\ UNCHANGED << fs, written >>
    /\ UNCHANGED << env, locals, images, i, cells, stdout, calls >>

----------------------------------------------------------------------------
\* image_to_image(input_file, output_format)

\* print(f"Error converting image: {e}") in the except clause, after which
\* the function returns.
ImageToImageExcept(e) ==
    /\ stdout' = Append(stdout, Line("Error converting image: ", e))
    /\ Return

\* img = Image.open(input_file)
ImageToImageOpen ==
    /\ pc = "image_to_image"
    /\ \E ok \in BOOLEAN :
         IF ok /\ isfile(input_file) /\ content.kind = "image"
         THEN /\ pc' = "image_to_image_save"
              /\ UNCHANGED << stdout, result >>
         ELSE ImageToImageExcept("open")
    /\ UNCHANGED << env, fs, locals, images, i, cells, calls, written >>

\* output_file = os.path.splitext(input_file)[0] + f'.{output_format}'
\* img.save(output_file, output_format.upper())
ImageToImageSave ==
    /\ pc = "image_to_image_save"
    /\ output_file' = splitext_root(input_file) \o <<".">> \o output_format
    /\ \E ok \in BOOLEAN :
         IF ok
         THEN /\ Save(output_file', upper(output_format), 0, << >>)
              /\ Return
              /\ UNCHANGED stdout
         ELSE /\ ImageToImageExcept("save")
              /\ UNCHANGED << fs, written >>
    /\ UNCHANGED << env, input_file, output_format, output_dir,
                    images, i, cells, calls >>

----------------------------------------------------------------------------
Next ==
    \/ ParseArgs
    \/ CheckInput
    \/ Dispatch
    \/ PdfToImageConvert
    \/ PdfToImageSave
    \/ PdfToImageReturn
    \/ PdfToDocx
    \/ DocxToPdfOpen
    \/ DocxToPdfPara
    \/ DocxToPdfOutput
    \/ ImageToImageOpen
    \/ ImageToImageSave

Spec == Init /\ [][Next]_vars

\* The process exit status of a run of the script: 0 when main returns, 1 when
\* an exception reaches the interpreter, 2 from argparse.
exit_status ==
    IF result = "returned" THEN 0 ELSE IF result = "raised" THEN 1 ELSE 2

----------------------------------------------------------------------------
\* Vocabulary of the properties

\* The call is a run of the command line tool with both required options.
MainWithArgs ==
    entry = "main" /\ argv.input # None /\ argv.output_format # None

\* The input path named an existing file when the call began.
InputExisted == content.kind # "absent"

\* The files that existed when the call began.
InitialFiles ==
    IF ~InputExisted THEN {}
    ELSE IF entry = "main" THEN {argv.input} ELSE {input_file}

\* s spells the lower-case word w in some letter case.
IsCaseOf(s, w) ==
    /\ Len(s) = Len(w)
    /\ \A k \in 1..Len(w) :
         \/ s[k] = w[k]
         \/ \E a \in 1..Len(LowerChars) : w[k] = LowerChars[a] /\ s[k] = UpperChars[a]

\* The value of a string of decimal digits, -1 when it is not one.
RECURSIVE DecValue(_)
DecValue(ds) ==
    IF Len(ds) = 0 \/ CharIndex(ds[Len(ds)], DigitChars) = 0 THEN -1
    ELSE IF Len(ds) = 1 THEN CharIndex(ds[1], DigitChars) - 1
    ELSE IF DecValue(SubSeq(ds, 1, Len(ds) - 1)) <= 0 THEN -1
    ELSE DecValue(SubSeq(ds, 1, Len(ds) - 1)) * 10
         + CharIndex(ds[Len(ds)], DigitChars) - 1

\* head names the directory dir, up to and including the separator.
IsDirPrefix(head, dir) ==
    \/ head = dir \o <<"/">>
    \/ head = dir /\ (dir = << >> \/ dir[Len(dir)] = "/")

\* p is the file called name in the directory dir.
IsFileIn(p, dir, name) ==
    /\ Len(p) >= Len(name)
    /\ SubSeq(p, Len(p) - Len(name) + 1, Len(p)) = name
    /\ IsDirPrefix(SubSeq(p, 1, Len(p) - Len(name)), dir)

\* p is output_<n>.<fmt> in the directory dir, n in decimal without padding.
IsPageFile(p, dir, n, fmt) ==
    \E a \in 0..Len(p), b \in 0..Len(p) :
        /\ a + 7 < b
        /\ IsDirPrefix(SubSeq(p, 1, a), dir)
        /\ SubSeq(p, a + 1, a + 7) = <<"o","u","t","p","u","t","_">>
        /\ DecValue(SubSeq(p, a + 8, b)) = n
        /\ SubSeq(p, b + 1, Len(p)) = <<".">> \o fmt

\* The directory pdf_to_image and docx_to_pdf are to write into.
RequestedDir ==
    IF entry = "main"
    THEN (IF argv.output_dir = None THEN <<".">> ELSE argv.output_dir)
    ELSE output_dir

\* The format as the routine receives it: main passes it in lower case.
IsRequestedFormat(fmt) ==
    IF entry = "main"
    THEN IsCaseOf(argv.output_format, fmt)
    ELSE fmt = output_format

----------------------------------------------------------------------------
\* C1: in a run of main on an existing input file the routine called depends
\* only on the letters of --output_format, whatever the file holds: jpg or png
\* in any letter case calls pdf_to_image, docx calls pdf_to_docx, pdf calls
\* docx_to_pdf, any other string calls nothing; at most one routine is ever
\* called and image_to_image never is.
C1_DispatchByFormatOnly ==
    (MainWithArgs /\ InputExisted) =>
        /\ Len(calls) <= 1
        /\ \A k \in 1..Len(calls) : calls[k] # "image_to_image"
        /\ (pc \notin {"main", "isfile", "dispatch"} =>
              LET f == argv.output_format
              IN  calls =
                    IF IsCaseOf(f, jpg) \/ IsCaseOf(f, png) THEN <<"pdf_to_image">>
                    ELSE IF IsCaseOf(f, docx) THEN <<"pdf_to_docx">>
                    ELSE IF IsCaseOf(f, pdf) THEN <<"docx_to_pdf">>
                    ELSE << >>)

\* An image given with --output_format JPG has gone to pdf_to_image.
C1_Witness ==
    /\ MainWithArgs /\ content.kind = "image"
    /\ argv.output_format = <<"J","P","G">>
    /\ pc = "done" /\ calls = <<"pdf_to_image">>

\* C2: in a run of main whose input path is no existing file, whatever the
\* format, the only output is the input-not-found diagnostic, no routine is
\* called and no file is written.
C2_MissingInput ==
    (MainWithArgs /\ ~InputExisted) =>
        /\ calls = << >>
        /\ written = << >>
        /\ fs = {}
        /\ pc \notin {"dispatch"}
        /\ stdout = IF pc = "done"
                    THEN << [msg |-> "Error: Input file not found.", e |-> ""] >>
                    ELSE << >>

\* A run for a supported format on a missing file has ended.
C2_Witness ==
    /\ MainWithArgs /\ ~InputExisted /\ argv.output_format = pdf
    /\ pc = "done" /\ Len(stdout) = 1

\* C3: in a run of main on an existing file with a format that is none of
\* jpg, png, docx, pdf in any letter case, the only output is the
\* unsupported-format diagnostic, no routine is called and the files are as
\* they were.
C3_UnsupportedFormat ==
    (/\ MainWithArgs /\ InputExisted
     /\ \A w \in {jpg, png, docx, pdf} : ~IsCaseOf(argv.output_format, w)) =>
        /\ calls = << >>
        /\ written = << >>
        /\ fs = InitialFiles
        /\ stdout = IF pc = "done"
                    THEN << [msg |-> "Error: Unsupported output format.", e |-> ""] >>
                    ELSE << >>

\* A run with --output_format xyz on an existing file has ended.
C3_Witness ==
    /\ MainWithArgs /\ InputExisted /\ argv.output_format = <<"x","y","z">>
    /\ pc = "done" /\ Len(stdout) = 1

\* C4: pdf_to_image saves the pages in increasing order, page k as
\* output_<k>.<format> in the output directory; when it has ended without a
\* diagnostic on a PDF of page_count pages it has saved exactly page_count
\* files, output_1 to output_<page_count>, no two alike and no output_0.
C4_PageFiles ==
    (calls = <<"pdf_to_image">> /\ content.kind = "pdf") =>
        /\ \A k \in 1..Len(written) :
             /\ written[k].page = k
             /\ IsPageFile(written[k].path, RequestedDir, k, output_format)
             /\ ~IsPageFile(written[k].path, RequestedDir, 0, output_format)
             /\ \A j \in 1..Len(written) :
                  j # k => written[j].path # written[k].path
        /\ ((pc = "done" /\ stdout = << >>) => Len(written) = content.pages)

\* A run of main for png on a PDF of more than nine pages has saved them all.
C4_Witness ==
    /\ MainWithArgs /\ IsCaseOf(argv.output_format, png) /\ content.pages > 9
    /\ pc = "done" /\ stdout = << >> /\ Len(written) = content.pages

\* C5: a run of main on an existing file for docx in any letter case, and any
\* direct call of pdf_to_docx, prints the not-implemented diagnostic and
\* nothing else, and creates or changes no file; the output.docx path it was
\* given does not come to exist.
C5_PdfToDocxWritesNothing ==
    (\/ MainWithArgs /\ InputExisted /\ IsCaseOf(argv.output_format, docx)
     \/ entry = "pdf_to_docx") =>
        /\ written = << >>
        /\ fs = InitialFiles
        /\ (pc = "done" =>
              /\ calls = <<"pdf_to_docx">>
              /\ IsFileIn(output_file, RequestedDir,
                          <<"o","u","t","p","u","t",".","d","o","c","x">>)
                   \/ entry # "main"
              /\ output_file \notin fs
              /\ stdout = << [msg |-> "PDF to DOCX conversion is not implemented yet.",
                              e |-> ""] >>)

\* A run of main with --output_format DOCX has ended.
C5_Witness ==
    /\ MainWithArgs /\ InputExisted /\ argv.output_format = <<"D","O","C","X">>
    /\ pc = "done" /\ calls = <<"pdf_to_docx">>

\* C6: every conversion routine that was called ends by returning normally,
\* whatever failed inside it; no exception leaves it.
C6_RoutinesSwallowFailures ==
    (pc = "done" /\ calls # << >>) => result = "returned"

\* C7: every run of the command line tool ends with exit status 0; stated for
\* the runs that were given both required options, whatever the input file
\* holds and whatever the format.
C7_ExitStatusZero ==
    (MainWithArgs /\ pc = "done") => exit_status = 0

\* C8: a run of main on an image for jpg leaves, next to the input, a file of
\* the same base name with the extension .jpg.
C8_SiblingJpg ==
    (/\ MainWithArgs /\ content.kind = "image"
     /\ IsCaseOf(argv.output_format, jpg) /\ pc = "done") =>
        (splitext_root(argv.input) \o <<".","j","p","g">>) \in fs

\* C9: docx_to_pdf appends one cell per paragraph in the document's order,
\* writes nothing while it does, and when no call fails writes once, after the
\* last paragraph, the cells of all paragraphs to output.pdf in the output
\* directory (the path it was given, for a direct call).
C9_ParagraphsInOrder ==
    (calls = <<"docx_to_pdf">>) =>
        /\ Len(cells) <= Len(content.paras)
        /\ \A k \in 1..Len(cells) : cells[k] = content.paras[k]
        /\ (pc # "done" => written = << >>)
        /\ ((pc = "done" /\ result = "returned") =>
              /\ Len(written) = 1
              /\ written[1].cells = content.paras
              /\ written[1].path = output_file
              /\ entry = "main" =>
                   IsFileIn(written[1].path, RequestedDir,
                            <<"o","u","t","p","u","t",".","p","d","f">>)
              /\ fs = InitialFiles \cup {written[1].path})

\* A run of main on a DOCX of three paragraphs, not all alike, has written.
C9_Witness ==
    /\ MainWithArgs /\ content.paras = <<"p", "q", "q">>
    /\ pc = "done" /\ result = "returned" /\ Len(written) = 1

\* C10: a failure in pdf_to_image ends it at once with one diagnostic: when
\* the save of page k fails, the files of this run are those of pages 1 to
\* k - 1, still there, and none of a page from k on; when rendering fails
\* there is none.
C10_NoCleanupNoRetry ==
    (calls = <<"pdf_to_image">> /\ stdout # << >>) =>
        /\ pc = "done"
        /\ Len(stdout) = 1
        /\ stdout[1].msg = "Error converting PDF to image: "
        /\ \A k \in 1..Len(written) :
             written[k].page = k /\ written[k].path \in fs
        /\ fs = InitialFiles \cup { written[k].path : k \in 1..Len(written) }
        /\ (stdout[1].e = "convert_from_path" => written = << >>)
        /\ (stdout[1].e = "save" =>
              /\ Len(written) = i
              /\ i < content.pages
              /\ \A n \in (i + 1)..content.pages : \A p \in fs :
                   ~IsPageFile(p, RequestedDir, n, output_format))

\* The save of page 3 of a longer PDF has failed.
C10_Witness ==
    /\ calls = <<"pdf_to_image">> /\ pc = "done" /\ content.pages > 3
    /\ Len(stdout) = 1 /\ stdout[1].e = "save" /\ Len(written) = 2

====
